---- MODULE Spec2Model ----
(***************************************************************************)
(* A model of the to-do list web application (main.py, forms.py).          *)
(*                                                                         *)
(* The persistent store holds two tables, users and todolist.  Every       *)
(* client (browser) keeps a signed session cookie that holds the id of the *)
(* logged-in user.  The server handles the requests of different clients   *)
(* concurrently: a handler that reads the store and later commits          *)
(* (register, deleteToDoListItem) is split at that point, so the requests  *)
(* of two clients interleave between the read and the commit.  A client    *)
(* waits for the response before it sends its next request.                *)
(***************************************************************************)
EXTENDS Integers, FiniteSets, Sequences, TLC

\* ---------------------------------------------------------------- bounds
\* The largest id a row of todolist gets: an insert that would pass it is held back.
MaxTaskId == 2
\* Most rows the users table holds before further inserts are held back.
MaxUsers == 3

\* ---------------------------------------------------------------- inputs
Sessions == {"s1", "s2"}
Emails == {"alice@x.com", "bob@x.com"}
Passwords == {"pw1", "pw2"}
Contents == {"Buy milk"}
Dates == {"2024-01-01"}
\* The values the random salt of a password hash is drawn from.
Salts == {1}
\* The data of a form field that the submitted form does not carry.
None == "None"
\* The session cookie of a client that is not logged in (it holds no _user_id).
Anonymous == 0

\* The register forms a client submits: every field present, or one of them absent
\* (an absent last_name goes the way of an absent first_name).
RegisterForms ==
    {[first_name |-> "N", last_name |-> "N", email |-> "alice@x.com", password |-> "pw1"],
     [first_name |-> "N", last_name |-> "N", email |-> "bob@x.com", password |-> "pw2"]}
    \cup {[first_name |-> None, last_name |-> "N", email |-> "alice@x.com", password |-> "pw1"],
          [first_name |-> "N", last_name |-> "N", email |-> None, password |-> "pw1"],
          [first_name |-> "N", last_name |-> "N", email |-> "alice@x.com", password |-> None]}
NoForm == [first_name |-> None, last_name |-> None, email |-> None, password |-> None]

\* ----------------------------------------------------------------- state
VARIABLES
    users,      \* the rows of table users
    todolist,   \* the rows of table todolist
    cookie,     \* cookie[s]: the user id the session cookie of client s holds
    req,        \* req[s]: the request of client s the server is handling
    resp,       \* the response the server sent last
    registered  \* history: the (email, password, id) of every successful registration

vars == <<users, todolist, cookie, req, resp, registered>>

\* ------------------------------------------------------ Credential Store
\* The iterated salted hash; distinct (salt, password) pairs give distinct digests.
pbkdf2_sha256(password, salt) == <<"sha256", salt, password>>

generate_password_hash(password, salt) ==
    [method |-> "pbkdf2:sha256", salt |-> salt, hashval |-> pbkdf2_sha256(password, salt)]

\* Mutant: the salt is not read back from the stored token.
check_password_hash_nosalt(pwhash, password) ==
    pbkdf2_sha256(password, 0) = pwhash.hashval

\* Mutant: every password verifies.
check_password_hash_always(pwhash, password) == TRUE

check_password_hash(pwhash, password) ==
    pbkdf2_sha256(password, pwhash.salt) = pwhash.hashval

\* --------------------------------------------------------------- tables
NoHash == [method |-> None, salt |-> 0, hashval |-> <<None, 0, None>>]
\* The result None of a query on users, and of one on todolist.
NoUser == [id |-> 0, email |-> None, password |-> NoHash, first_name |-> None, last_name |-> None]
NoItem == [id |-> 0, content |-> None, date |-> None, author_id |-> 0]

\* Mutant: the key of a new row is the number of rows plus one.
NextId_count(table) == Cardinality(table) + 1

\* An INTEGER PRIMARY KEY of a new row: one more than the largest in the table.
NextId(table) ==
    IF table = {} THEN 1
    ELSE (CHOOSE r \in table : \A q \in table : q.id <= r.id).id + 1

\* Query.first(): the first row of the result, None when it is empty.
first(rows, none) ==
    IF rows = {} THEN none
    ELSE CHOOSE r \in rows : \A q \in rows : r.id <= q.id

\* Mutant: the filter compares the wrong column.
UserByEmail_wrong_column(email) == {u \in users : u.first_name = email}

\* Mutant: the filter is missing.
UserByEmail_all(email) == users

\* User.query.filter_by(email=email)
UserByEmail(email) == {u \in users : u.email = email}

\* Mutant: the filter is missing.
ToDoListByAuthor_all(author_id) == todolist

\* ToDoList.query.filter_by(author_id=author_id)
ToDoListByAuthor(author_id) == {t \in todolist : t.author_id = author_id}

\* ToDoList.query.get(item_id)
ToDoListGet(item_id) == first({t \in todolist : t.id = item_id}, NoItem)

\* ------------------------------------------------- Session/Auth Manager
load_user(user_id) == first({u \in users : u.id = user_id}, NoUser)

current_user(s) == load_user(cookie[s])

is_authenticated(s) == current_user(s) # NoUser

\* Mutant: the decorator is missing.
login_required_missing(s) == TRUE

\* login_required lets the handler run.
login_required(s) == is_authenticated(s)

\* Mutant: the logged-in user is kept in one place for all clients.
login_user_global(s, user) == [t \in Sessions |-> user.id]

\* Mutant: the user is not logged in.
login_user_skipped(s, user) == cookie

\* login_user(user) and logout_user(), as the cookie the response sets.
login_user(s, user) == [cookie EXCEPT ![s] = user.id]

\* Mutant: logout clears the session of every client.
logout_user_all(s) == [t \in Sessions |-> Anonymous]

\* Mutant: the session is kept.
logout_user_noop(s) == cookie

logout_user(s) == [cookie EXCEPT ![s] = Anonymous]

\* ------------------------------------------------------------ responses
Idle == [pc |-> "idle", form |-> NoForm, item |-> NoItem]

Response(s, op, outcome, notice, items) ==
    [session |-> s, op |-> op, outcome |-> outcome, notice |-> notice, items |-> items]

\* 401 error handling: flash "Please Login", redirect to login.
custom_401(s, op) ==
    /\ resp' = Response(s, op, "redirect_login", "Please Login", {})
    /\ UNCHANGED <<users, todolist, cookie, registered>>

\* An exception no handler catches: the response is a 500 and nothing is committed.
InternalServerError(s, op) ==
    /\ resp' = Response(s, op, "error_500", None, {})
    /\ UNCHANGED <<users, todolist, cookie, registered>>

Init ==
    /\ users = {}
    /\ todolist = {}
    /\ cookie = [s \in Sessions |-> Anonymous]
    /\ req = [s \in Sessions |-> Idle]
    /\ resp = Response("s1", "none", "none", None, {})
    /\ registered = {}

\* ------------------------------------------------------------- handlers
\* GET /home
home_get(s) ==
    /\ req[s].pc = "idle"
    /\ UNCHANGED req
    /\ IF ~login_required(s) THEN custom_401(s, "home_get")
       ELSE /\ resp' = Response(s, "home_get", "render_index", None,
                                ToDoListByAuthor(current_user(s).id))
            /\ UNCHANGED <<users, todolist, cookie, registered>>

\* Mutant: the new item is given no author_id (the column is nullable).
home_post_no_author(s, content, date) ==
    /\ req[s].pc = "idle"
    /\ UNCHANGED req
    /\ IF ~login_required(s) THEN custom_401(s, "home_post")
       ELSE IF content = None \/ date = None
       THEN InternalServerError(s, "home_post")
       ELSE /\ NextId(todolist) <= MaxTaskId
            /\ todolist' = todolist \cup
                   {[id |-> NextId(todolist), content |-> content, date |-> date,
                     author_id |-> NoUser.id]}
            /\ resp' = Response(s, "home_post", "redirect_home", None, {})
            /\ UNCHANGED <<users, cookie, registered>>

\* POST /home
home_post(s, content, date) ==
    /\ req[s].pc = "idle"
    /\ UNCHANGED req
    /\ IF ~login_required(s) THEN custom_401(s, "home_post")
       ELSE IF content = None \/ date = None
       THEN InternalServerError(s, "home_post")
       ELSE /\ NextId(todolist) <= MaxTaskId
            /\ todolist' = todolist \cup
                   {[id |-> NextId(todolist), content |-> content, date |-> date,
                     author_id |-> current_user(s).id]}
            /\ resp' = Response(s, "home_post", "redirect_home", None, {})
            /\ UNCHANGED <<users, cookie, registered>>

\* GET /register
register_get(s) ==
    /\ req[s].pc = "idle"
    /\ resp' = Response(s, "register_get", "render_register", None, {})
    /\ UNCHANGED <<users, todolist, cookie, req, registered>>

\* POST /register, to the query for a user with the form's email.
register_post(s, form) ==
    /\ req[s].pc = "idle"
    /\ IF first(UserByEmail(form.email), NoUser) # NoUser
       THEN /\ resp' = Response(s, "register", "redirect_login",
                                "The provided email already exists, please login instead", {})
            /\ UNCHANGED <<users, todolist, cookie, req, registered>>
       ELSE IF form.password = None
       THEN InternalServerError(s, "register") /\ UNCHANGED req
       ELSE /\ req' = [req EXCEPT ![s] = [pc |-> "register", form |-> form, item |-> NoItem]]
            /\ UNCHANGED <<users, todolist, cookie, resp, registered>>

\* Mutant: the column is not declared unique.
UniqueEmailConflict_none(email) == {}

\* The rows the insert of a user with this email conflicts with (email is unique).
UniqueEmailConflict(email) == {u \in users : u.email = email}

\* Mutant: the insert replaces the row that holds the email (INSERT OR REPLACE).
register_commit_replace(s) ==
    /\ req[s].pc = "register"
    /\ req' = [req EXCEPT ![s] = Idle]
    /\ LET form == req[s].form IN
       IF form.first_name = None \/ form.last_name = None \/ form.email = None
       THEN InternalServerError(s, "register")
       ELSE /\ NextId(users) <= MaxUsers
            /\ \E salt \in Salts :
                 LET new_user == [id |-> NextId(users), email |-> form.email,
                                  password |-> generate_password_hash(form.password, salt),
                                  first_name |-> form.first_name,
                                  last_name |-> form.last_name]
                 IN /\ users' = (users \ UniqueEmailConflict(form.email)) \cup {new_user}
                    /\ cookie' = login_user(s, new_user)
                    /\ registered' = registered \cup
                          {[email |-> form.email, password |-> form.password,
                            id |-> new_user.id]}
            /\ resp' = Response(s, "register", "redirect_home", None, {})
            /\ UNCHANGED todolist

\* POST /register, from the creation of the new user on.
register_commit(s) ==
    /\ req[s].pc = "register"
    /\ req' = [req EXCEPT ![s] = Idle]
    /\ LET form == req[s].form IN
       IF \/ form.first_name = None \/ form.last_name = None \/ form.email = None
               \/ UniqueEmailConflict(form.email) # {}
       THEN InternalServerError(s, "register")
       ELSE /\ Cardinality(users) < MaxUsers
            /\ \E salt \in Salts :
                 LET new_user == [id |-> NextId(users), email |-> form.email,
                                  password |-> generate_password_hash(form.password, salt),
                                  first_name |-> form.first_name,
                                  last_name |-> form.last_name]
                 IN /\ users' = users \cup {new_user}
                    /\ cookie' = login_user(s, new_user)
                    /\ registered' = registered \cup
                          {[email |-> form.email, password |-> form.password,
                            id |-> new_user.id]}
            /\ resp' = Response(s, "register", "redirect_home", None, {})
            /\ UNCHANGED todolist

\* GET /login
login_get(s) ==
    /\ req[s].pc = "idle"
    /\ resp' = Response(s, "login_get", "render_login", None, {})
    /\ UNCHANGED <<users, todolist, cookie, req, registered>>

\* POST /login
login_post(s, email, password) ==
    /\ req[s].pc = "idle"
    /\ UNCHANGED req
    /\ LET user == first(UserByEmail(email), NoUser) IN
       IF user # NoUser
       THEN IF password = None
            THEN InternalServerError(s, "login")
            ELSE IF check_password_hash(user.password, password)
            THEN /\ cookie' = login_user(s, user)
                 /\ resp' = Response(s, "login", "redirect_home", None, {})
                 /\ UNCHANGED <<users, todolist, registered>>
            ELSE /\ resp' = Response(s, "login", "render_login",
                                     "Password enter is incorrect. Please try again.", {})
                 /\ UNCHANGED <<users, todolist, cookie, registered>>
       ELSE /\ resp' = Response(s, "login", "redirect_register",
                                "Please register to use our services", {})
            /\ UNCHANGED <<users, todolist, cookie, registered>>

\* GET /logout
logout(s) ==
    /\ req[s].pc = "idle"
    /\ cookie' = logout_user(s)
    /\ resp' = Response(s, "logout", "redirect_home", None, {})
    /\ UNCHANGED <<users, todolist, req, registered>>

\* GET /deleteToDoListItem/<item_id>, to the query for the item and
\* db.session.delete, which raises on None.
deleteToDoListItem(s, item_id) ==
    /\ req[s].pc = "idle"
    /\ IF ~login_required(s)
       THEN custom_401(s, "delete") /\ UNCHANGED req
       ELSE LET item_to_delete == ToDoListGet(item_id) IN
            IF item_to_delete = NoItem
            THEN InternalServerError(s, "delete") /\ UNCHANGED req
            ELSE /\ req' = [req EXCEPT ![s] = [pc |-> "delete", form |-> NoForm,
                                              item |-> item_to_delete]]
                 /\ UNCHANGED <<users, todolist, cookie, resp, registered>>

\* Mutant: the DELETE names the author, not the row.
deleteToDoListItem_commit_by_author(s) ==
    /\ req[s].pc = "delete"
    /\ req' = [req EXCEPT ![s] = Idle]
    /\ todolist' = {t \in todolist : t.author_id # req[s].item.author_id}
    /\ resp' = Response(s, "delete", "redirect_home", None, {})
    /\ UNCHANGED <<users, cookie, registered>>

\* GET /deleteToDoListItem/<item_id>, the commit: DELETE ... WHERE id = ?
deleteToDoListItem_commit(s) ==
    /\ req[s].pc = "delete"
    /\ req' = [req EXCEPT ![s] = Idle]
    /\ todolist' = {t \in todolist : t.id # req[s].item.id}
    /\ resp' = Response(s, "delete", "redirect_home", None, {})
    /\ UNCHANGED <<users, cookie, registered>>

Next ==
    \E s \in Sessions :
        \/ home_get(s)
        \/ \E content \in Contents \cup {None}, date \in Dates \cup {None} :
              home_post(s, content, date)
        \/ register_get(s)
        \/ \E form \in RegisterForms : register_post(s, form)
        \/ register_commit(s)
        \/ login_get(s)
        \/ \E email \in Emails \cup {None}, password \in Passwords \cup {None} :
              login_post(s, email, password)
        \/ logout(s)
        \/ \E item_id \in 1..(MaxTaskId + 1) : deleteToDoListItem(s, item_id)
        \/ deleteToDoListItem_commit(s)

Spec == Init /\ [][Next]_vars

\* ------------------------------------------------------------ properties
\* A request of client s to a protected view.
Protected(s) ==
    \/ home_get(s)
    \/ \E content \in Contents \cup {None}, date \in Dates \cup {None} :
          home_post(s, content, date)
    \/ \E item_id \in 1..(MaxTaskId + 1) : deleteToDoListItem(s, item_id)

\* A login form client s submits.
LoginSubmitted(s) ==
    \E email \in Emails \cup {None}, password \in Passwords \cup {None} :
        login_post(s, email, password)

TypeOK ==
    /\ \A u \in users : u.id \in 1..MaxUsers /\ u.email \in Emails
    /\ \A t \in todolist : t.id \in 1..MaxTaskId /\ t.author_id \in 1..MaxUsers
    /\ cookie \in [Sessions -> 0..MaxUsers]
    /\ \A s \in Sessions : req[s].pc \in {"idle", "register", "delete"}
    /\ resp.session \in Sessions

\* C1: ListTasks (GET /home) by a client whose current identity is B returns
\* exactly the tasks in the store whose owner is B: none of another user, and
\* every one of B's.
C1_ListTasksExactlyOwn ==
    [][\A s \in Sessions :
          (home_get(s) /\ cookie[s] # Anonymous) =>
              /\ resp'.outcome = "render_index"
              /\ resp'.items \subseteq todolist
              /\ \A t \in todolist : (t \in resp'.items) <=> (t.author_id = cookie[s])]_vars

\* A listing that shows the client's tasks while another user's task is stored.
C1_Witness ==
    /\ resp.op = "home_get" /\ resp.outcome = "render_index"
    /\ resp.items # {}
    /\ \E t \in todolist : t.author_id # cookie[resp.session]

\* C2: DeleteTask in a session whose current identity is B never removes a
\* task whose owner is another user.
C2_DeleteOnlyOwn ==
    [][\A s \in Sessions :
          deleteToDoListItem_commit(s) =>
              \A t \in todolist \ todolist' : t.author_id = cookie[s]]_vars

\* C3: a protected operation requested by an Anonymous session does not run:
\* users and tasks are unchanged, the session stays Anonymous, the outcome is
\* a redirect to login with the notice "Please Login".
C3_AnonymousIntercepted ==
    [][\A s \in Sessions :
          (cookie[s] = Anonymous /\ Protected(s)) =>
              /\ UNCHANGED <<users, todolist, cookie, req>>
              /\ resp'.session = s
              /\ resp'.outcome = "redirect_login"
              /\ resp'.notice = "Please Login"]_vars

\* An anonymous delete request was redirected to login while tasks are stored.
C3_Witness ==
    /\ resp.op = "delete" /\ resp.outcome = "redirect_login"
    /\ cookie[resp.session] = Anonymous
    /\ todolist # {}

\* C4: no two rows of users share an email, in every reachable state, also
\* when two register requests for one fresh email both passed the pre-check.
C4_EmailUnique ==
    \A u \in users : \A v \in users : u.email = v.email => u = v

\* A register request passed the pre-check, and its email has been taken since.
C4_Witness ==
    \E s \in Sessions :
        /\ req[s].pc = "register"
        /\ req[s].form.first_name # None
        /\ \E u \in users : u.email = req[s].form.email

\* C5: Register with an email that a user holds when the handler looks it up
\* is rejected: users, tasks and every session are unchanged, the notice is
\* produced, the requester is redirected to login, the request is over.
C5_DuplicateEmailRejected ==
    [][\A s \in Sessions : \A form \in RegisterForms :
          ((\E u \in users : u.email = form.email) /\ register_post(s, form)) =>
              /\ UNCHANGED <<users, todolist, cookie>>
              /\ req'[s] = Idle
              /\ resp'.session = s
              /\ resp'.outcome = "redirect_login"
              /\ resp'.notice = "The provided email already exists, please login instead"]_vars

\* A register request was rejected for its email.
C5_Witness ==
    /\ resp.op = "register" /\ resp.outcome = "redirect_login"
    /\ users # {}

\* C6: once Register(first, last, e, p) succeeded, every Login(e, p) succeeds
\* and binds the session to the user that registration created.
C6_LoginAfterRegister ==
    [][\A s \in Sessions : \A r \in registered :
          login_post(s, r.email, r.password) =>
              /\ cookie'[s] = r.id
              /\ current_user(s)'.email = r.email
              /\ resp'.session = s
              /\ resp'.outcome = "redirect_home"]_vars

\* A login succeeded after two users registered and a task was created.
C6_Witness ==
    /\ resp.op = "login" /\ resp.outcome = "redirect_home"
    /\ Cardinality(registered) = 2
    /\ todolist # {}
    /\ \E r \in registered : r.id = cookie[resp.session]

\* C7: a session bound to user U resolves to U on every request, and its GET
\* /home succeeds, until that session logs out, logs in or registers; the
\* requests of other sessions never change it.
C7_SessionKeepsIdentity ==
    [][\A s \in Sessions :
          cookie[s] # Anonymous =>
              /\ current_user(s).id = cookie[s]
              /\ home_get(s) => (resp'.session = s /\ resp'.outcome = "render_index")
              /\ cookie'[s] # cookie[s] =>
                     (logout(s) \/ LoginSubmitted(s) \/ register_commit(s))]_vars

\* GET /home succeeded for a session while the other session is bound to another user.
C7_Witness ==
    /\ resp.op = "home_get" /\ resp.outcome = "render_index"
    /\ \E t \in Sessions :
          cookie[t] # Anonymous /\ cookie[t] # cookie[resp.session]

\* C8: Logout leaves the session Anonymous and changes no user, no task and no
\* other session; an Anonymous session is refused every protected request and
\* stays Anonymous until its own successful Login or Register.
C8_LogoutTearsDown ==
    [][\A s \in Sessions :
          /\ logout(s) =>
                 /\ cookie'[s] = Anonymous
                 /\ \A t \in Sessions \ {s} : cookie'[t] = cookie[t]
                 /\ UNCHANGED <<users, todolist>>
          /\ (cookie[s] = Anonymous /\ Protected(s)) =>
                 (cookie'[s] = Anonymous /\ resp'.outcome = "redirect_login")
          /\ (cookie[s] = Anonymous /\ cookie'[s] # Anonymous) =>
                 /\ LoginSubmitted(s) \/ register_commit(s)
                 /\ resp'.outcome = "redirect_home"]_vars

\* After a logout every session is Anonymous, though a user created a task.
C8_Witness ==
    /\ resp.op = "logout"
    /\ \A s \in Sessions : cookie[s] = Anonymous
    /\ todolist # {}

\* C9: Login with a registered email and a password that is not the one
\* registered changes no session, no user and no task, produces the
\* incorrect-password notice and renders the login page again.
C9_WrongPassword ==
    [][\A s \in Sessions : \A r \in registered : \A password \in Passwords \ {r.password} :
          login_post(s, r.email, password) =>
              /\ UNCHANGED <<users, todolist, cookie>>
              /\ resp'.session = s
              /\ resp'.outcome = "render_login"
              /\ resp'.notice = "Password enter is incorrect. Please try again."]_vars

\* A login was refused for its password.
C9_Witness ==
    /\ resp.op = "login" /\ resp.outcome = "render_login"
    /\ resp.notice = "Password enter is incorrect. Please try again."

\* C10: Login with an email no user holds changes no session, creates no
\* user, produces the please-register notice and redirects to registration.
C10_UnknownAccount ==
    [][\A s \in Sessions : \A email \in Emails \cup {None} :
       \A password \in Passwords \cup {None} :
          ((~ \E u \in users : u.email = email) /\ login_post(s, email, password)) =>
              /\ UNCHANGED <<users, todolist, cookie>>
              /\ resp'.session = s
              /\ resp'.outcome = "redirect_register"
              /\ resp'.notice = "Please register to use our services"]_vars

\* A login with an unknown email was redirected while another account exists.
C10_Witness ==
    /\ resp.op = "login" /\ resp.outcome = "redirect_register"
    /\ users # {}

\* A task form client s submits with both fields present.
TaskCreated(s) ==
    \E content \in Contents, date \in Dates : home_post(s, content, date)

\* C11: DeleteTask on a task that is in the store when the delete is committed
\* removes that task and nothing else: every other task keeps its content,
\* date and owner, no user changes, and the task is in no later listing,
\* since a listing shows stored rows only and a row enters the store only
\* through CreateTask.
C11_DeleteRemovesOnlyThat ==
    [][/\ \A s \in Sessions :
            (deleteToDoListItem_commit(s) /\ req[s].item \in todolist) =>
                /\ todolist' = todolist \ {req[s].item}
                /\ UNCHANGED users
                /\ resp'.session = s
                /\ resp'.outcome = "redirect_home"
       /\ \A s \in Sessions : home_get(s) => resp'.items \subseteq todolist
       /\ (todolist' \ todolist # {}) => \E s \in Sessions : TaskCreated(s)]_vars

\* A delete was committed and left the task with the other id in the store.
C11_Witness ==
    /\ resp.op = "delete" /\ resp.outcome = "redirect_home"
    /\ todolist # {}
    /\ \A t \in todolist : t.id = 2

\* C12: a form submitted with a required field absent is rendered again,
\* creates no user and no task and leaves every session as it was, on
\* Register, Login and CreateTask.
C12_MissingFieldRerenders ==
    [][\A s \in Sessions :
          /\ \A form \in RegisterForms :
                (register_post(s, form) /\ None \in {form.first_name, form.last_name,
                                                     form.email, form.password}) =>
                    /\ req'[s] = Idle
                    /\ resp'.outcome = "render_register"
                    /\ UNCHANGED <<users, todolist, cookie>>
          /\ \A email \in Emails \cup {None}, password \in Passwords \cup {None} :
                (login_post(s, email, password) /\ None \in {email, password}) =>
                    /\ resp'.outcome = "render_login"
                    /\ UNCHANGED <<users, todolist, cookie>>
          /\ \A content \in Contents \cup {None}, date \in Dates \cup {None} :
                (home_post(s, content, date) /\ cookie[s] # Anonymous
                                            /\ None \in {content, date}) =>
                    /\ resp'.outcome = "render_index"
                    /\ UNCHANGED <<users, todolist, cookie>>]_vars

\* C13: of two register requests with one fresh email that both passed the
\* pre-check, one creates the user, and the other, which commits when the
\* email is taken, creates none and ends with the notice and a redirect, not
\* with an unhandled failure.
C13_RegisterRaceRecoverable ==
    [][\A s \in Sessions :
          (/\ register_commit(s)
           /\ None \notin {req[s].form.first_name, req[s].form.last_name, req[s].form.email}
           /\ \E u \in users : u.email = req[s].form.email) =>
              /\ UNCHANGED users
              /\ resp'.outcome = "redirect_login"
              /\ resp'.notice = "The provided email already exists, please login instead"]_vars

\* C14: DeleteTask on an id that matches no task (never created, deleted
\* before, or deleted by another request between the lookup and the commit)
\* leaves the task store unchanged and ends in the redirect to the task list.
C14_DeleteMissingNotFatal ==
    [][\A s \in Sessions :
          /\ \A item_id \in 1..(MaxTaskId + 1) :
                (/\ deleteToDoListItem(s, item_id)
                 /\ cookie[s] # Anonymous
                 /\ ~ \E t \in todolist : t.id = item_id) =>
                    /\ UNCHANGED todolist
                    /\ req'[s] = Idle
                    /\ resp'.outcome = "redirect_home"
          /\ (deleteToDoListItem_commit(s) /\ req[s].item \notin todolist) =>
                    /\ UNCHANGED todolist
                    /\ resp'.outcome = "redirect_home"]_vars

\* C15: CreateTask(content, date) in a session authenticated as U adds exactly
\* one task, with an id no stored task has, the given content and date and
\* owner U; the tasks stored before and the users are unchanged, and the
\* outcome is a redirect to the task list.
C15_CreateAddsOne ==
    [][\A s \in Sessions : \A content \in Contents : \A date \in Dates :
          (home_post(s, content, date) /\ cookie[s] # Anonymous) =>
              /\ \E t \in todolist' :
                    /\ todolist' = todolist \cup {t}
                    /\ t.id \notin {q.id : q \in todolist}
                    /\ t.content = content
                    /\ t.date = date
                    /\ t.author_id = cookie[s]
              /\ UNCHANGED users
              /\ resp'.session = s
              /\ resp'.outcome = "redirect_home"]_vars

\* A task was created beside a stored one.
C15_Witness ==
    /\ resp.op = "home_post" /\ resp.outcome = "redirect_home"
    /\ Cardinality(todolist) = 2

\* C16: a Register whose fields are all present and whose email no user holds
\* at the commit creates exactly one user, with the form's names and email
\* and a hash that verifies the form's password, leaves the requesting
\* session bound to that new user, whatever it was bound to, and redirects
\* to the home view.
C16_RegisterCreatesAndLogsIn ==
    [][\A s \in Sessions :
          (/\ register_commit(s)
           /\ None \notin {req[s].form.first_name, req[s].form.last_name, req[s].form.email}
           /\ ~ \E u \in users : u.email = req[s].form.email) =>
              /\ \E u \in users' :
                    /\ users' = users \cup {u}
                    /\ u.id \notin {v.id : v \in users}
                    /\ u.email = req[s].form.email
                    /\ u.first_name = req[s].form.first_name
                    /\ u.last_name = req[s].form.last_name
                    /\ check_password_hash(u.password, req[s].form.password)
                    /\ cookie'[s] = u.id
                    /\ current_user(s)' = u
              /\ UNCHANGED todolist
              /\ resp'.session = s
              /\ resp'.outcome = "redirect_home"]_vars

\* The second user registered in a session while the other session is bound to the first.
C16_Witness ==
    /\ resp.op = "register" /\ resp.outcome = "redirect_home"
    /\ Cardinality(users) = 2
    /\ cookie[resp.session] = 2
    /\ \E t \in Sessions : cookie[t] = 1

\* C17: in every reachable state each task has one owner, and its author_id
\* is the id of exactly one stored user: no owner is missing or dangling.
C17_TaskOwnerExists ==
    \A t \in todolist :
        /\ t.author_id # NoUser.id
        /\ Cardinality({u \in users : u.id = t.author_id}) = 1

\* Tasks of two different owners are stored.
C17_Witness ==
    \E t \in todolist : \E q \in todolist : t.author_id # q.author_id

\* C18: a user record, once stored, is never changed or deleted, and the
\* users change only by a successful Register adding one record: Login,
\* Logout, ListTasks, CreateTask, DeleteTask and every Register that is
\* rejected or fails leave them as they are.
C18_UsersOnlyGrowByRegister ==
    [][/\ users \subseteq users'
       /\ (users' # users) =>
              \E s \in Sessions :
                  /\ register_commit(s)
                  /\ Cardinality(users' \ users) = 1
                  /\ resp'.outcome = "redirect_home"
       /\ \A s \in Sessions :
              (\/ logout(s) \/ LoginSubmitted(s) \/ Protected(s)
               \/ deleteToDoListItem_commit(s)
               \/ resp'.outcome \in {"redirect_login", "error_500"}) => UNCHANGED users]_vars

\* A register request failed and the users stored before are still there.
C18_Witness ==
    /\ resp.op = "register" /\ resp.outcome = "error_500"
    /\ users # {}

\* C19: the identity of a session changes only in that session's own
\* requests: it becomes a user only by a Login or Register that succeeds,
\* and becomes Anonymous only by Logout; a rejected Login, a rejected or
\* failed Register, ListTasks, CreateTask and DeleteTask leave it as it
\* was, also when the session was Authenticated.
C19_IdentityMachine ==
    [][\A s \in Sessions :
          /\ (cookie'[s] # cookie[s] \/ current_user(s)' # current_user(s)) =>
                 \/ logout(s) /\ cookie'[s] = Anonymous
                 \/ /\ LoginSubmitted(s) \/ register_commit(s)
                    /\ resp'.outcome = "redirect_home"
                    /\ cookie'[s] # Anonymous
                    /\ current_user(s)'.id = cookie'[s]
          /\ (\/ Protected(s) \/ deleteToDoListItem_commit(s)
              \/ \E form \in RegisterForms : register_post(s, form)
              \/ (LoginSubmitted(s) \/ register_commit(s))
                    /\ resp'.outcome # "redirect_home") =>
                 cookie'[s] = cookie[s]]_vars

\* A login was rejected in a session that is bound to a user.
C19_Witness ==
    /\ resp.op = "login"
    /\ resp.outcome \in {"render_login", "redirect_register"}
    /\ cookie[resp.session] # Anonymous

====
